---- MODULE Spec2Model ----
(***************************************************************************)
(* Model of bims/api_views/module_summary.py: the module summary           *)
(* dashboard (ModuleSummary) and the three paginated listing endpoints     *)
(* (TaxonGroupOrdersAPIView, TaxonGroupFamiliesAPIView,                    *)
(* TaxonGroupSpeciesAPIView).                                              *)
(*                                                                         *)
(* The views only read the database.  The database (taxon groups,          *)
(* occurrence records, IUCN lookup table) is drawn in Init; every action   *)
(* is one HTTP GET handled from its first line to its Response (or to the  *)
(* exception that leaves the view).                                        *)
(*                                                                         *)
(* Text is a tuple of character codes (65 = 'A', 66 = 'B', 97 = 'a',       *)
(* 98 = 'b', 48..57 = '0'..'9', 45 = '-', 120 = 'x'), so that lower(),     *)
(* the substring test, the sort order and int() are computed.              *)
(***************************************************************************)
EXTENDS Integers, Sequences, FiniteSets, Bags, TLC

VARIABLES taxon_groups, records, iucn_category, request, response

vars == <<taxon_groups, records, iucn_category, request, response>>

(***************************************************************************)
(* Bounds                                                                  *)
(***************************************************************************)
MaxRecords == 3
MaxPage == 3
MaxPageSize == 2

(***************************************************************************)
(* Python built-ins used by the views                                      *)
(***************************************************************************)
\* str.lower() on one character
LowerChar(c) == IF c >= 65 /\ c <= 90 THEN c + 32 ELSE c

\* str.lower()
Lower(s) == [i \in 1..Len(s) |-> LowerChar(s[i])]

\* sub in s
Contains(s, sub) ==
    \E i \in 0..(Len(s) - Len(sub)) :
        \A j \in 1..Len(sub) : s[i + j] = sub[j]

\* s < t for str (code point order)
StrLess(s, t) ==
    \E i \in 1..(Len(s) + 1) :
        /\ i <= Len(t)
        /\ \A j \in 1..(i - 1) : s[j] = t[j]
        /\ (i = Len(s) + 1 \/ s[i] < t[i])

IsDigit(c) == c >= 48 /\ c <= 57

RECURSIVE DigitsValue(_)
DigitsValue(s) ==
    IF Len(s) = 0 THEN 0
    ELSE 10 * DigitsValue(SubSeq(s, 1, Len(s) - 1)) + (s[Len(s)] - 48)

\* int(s) raises ValueError
IntRaises(s) ==
    LET body == IF Len(s) > 0 /\ s[1] = 45 THEN Tail(s) ELSE s
    IN  Len(body) = 0 \/ \E i \in 1..Len(body) : ~IsDigit(body[i])

\* int(s) for a str that parses
IntOf(s) ==
    IF s[1] = 45 THEN 0 - DigitsValue(Tail(s)) ELSE DigitsValue(s)

RECURSIVE NatStr(_)
NatStr(n) ==
    IF n < 10 THEN <<48 + n>> ELSE NatStr(n \div 10) \o <<48 + (n % 10)>>

\* str(n), the text a client puts in the query string
Str(n) == IF n < 0 THEN <<45>> \o NatStr(0 - n) ELSE NatStr(n)

\* lst[start:end] on a list
PySlice(lst, start, end) ==
    LET n  == Len(lst)
        lo == IF start < 0 THEN (IF start + n < 0 THEN 0 ELSE start + n)
              ELSE (IF start > n THEN n ELSE start)
        hi == IF end < 0 THEN (IF end + n < 0 THEN 0 ELSE end + n)
              ELSE (IF end > n THEN n ELSE end)
    IN  SubSeq(lst, lo + 1, hi)

\* d[key] = value on a dict kept as the list of its values in insertion
\* order, each value carrying its key in the field name
DictSet(d, value) ==
    IF \E i \in 1..Len(d) : d[i].name = value.name
    THEN [i \in 1..Len(d) |-> IF d[i].name = value.name THEN value ELSE d[i]]
    ELSE Append(d, value)

RECURSIVE InsertByName(_, _)
InsertByName(sorted, x) ==
    IF Len(sorted) = 0 THEN <<x>>
    ELSE IF StrLess(x.name, Head(sorted).name) THEN <<x>> \o sorted
    ELSE <<Head(sorted)>> \o InsertByName(Tail(sorted), x)

\* lst.sort(key=lambda x: x['name'])
RECURSIVE SortByName(_)
SortByName(lst) ==
    IF Len(lst) = 0 THEN <<>>
    ELSE InsertByName(SortByName(SubSeq(lst, 1, Len(lst) - 1)), lst[Len(lst)])

(***************************************************************************)
(* Database                                                                *)
(***************************************************************************)
\* None / NULL
None == "None"

\* The Taxonomy table.  parent = 0 is a NULL parent.
Taxonomy ==
    <<
      [id |-> 1, rank |-> "SPECIES", canonical_name |-> <<97, 98>>,
       scientific_name |-> <<65, 98>>, order_name |-> <<65, 98>>,
       family_name |-> <<66, 97>>, parent |-> 5, origin |-> "alien",
       iucn_status |-> "LC", endemism |-> "Endemic", division |-> "D1"],
      [id |-> 2, rank |-> "SUBSPECIES", canonical_name |-> <<>>,
       scientific_name |-> <<98, 65>>, order_name |-> <<97, 66>>,
       family_name |-> <<66, 97>>, parent |-> 0, origin |-> "",
       iucn_status |-> None, endemism |-> None, division |-> None],
      [id |-> 3, rank |-> "GENUS", canonical_name |-> <<98>>,
       scientific_name |-> <<98>>, order_name |-> <<>>,
       family_name |-> <<65, 97>>, parent |-> 0, origin |-> "indigenous",
       iucn_status |-> None, endemism |-> None, division |-> "D1"],
      [id |-> 4, rank |-> "SPECIES", canonical_name |-> <<66, 98>>,
       scientific_name |-> <<66, 98>>, order_name |-> <<98>>,
       family_name |-> <<>>, parent |-> 0, origin |-> "zz",
       iucn_status |-> "XX", endemism |-> "Endemic", division |-> None],
      [id |-> 5, rank |-> "FAMILY", canonical_name |-> <<66, 97>>,
       scientific_name |-> <<66, 97, 97>>, order_name |-> <<65, 98>>,
       family_name |-> <<66, 97>>, parent |-> 6, origin |-> "indigenous",
       iucn_status |-> "NE", endemism |-> None, division |-> None],
      [id |-> 6, rank |-> "ORDER", canonical_name |-> <<65, 98>>,
       scientific_name |-> <<65, 98, 97>>, order_name |-> <<65, 98>>,
       family_name |-> <<>>, parent |-> 0, origin |-> "",
       iucn_status |-> None, endemism |-> None, division |-> None]
    >>

\* taxa an occurrence record may reference
RecordTaxa == {1, 2, 3, 4, 5}

\* (site, survey) pairs of the occurrence records; a survey is at one site
Visits == {<<1, 1>>, <<1, 2>>}

\* ids of the TaxonGroup rows
GroupIds == {1, 2}

\* taxon_group_id of the listing requests; 9 is the id of no row
RequestGroupIds == {1, 9}

\* Taxonomy.CATEGORY_CHOICES as a dict
origin_category ==
    [k \in {"alien", "indigenous"} |->
        IF k = "alien" THEN "Non-Native" ELSE "Native"]

\* candidate contents of IUCNStatus.CATEGORY_CHOICES as a dict
IUCNTables ==
    { [k \in {"LC", "NE"} |->
          IF k = "LC" THEN "Least concern" ELSE "Not evaluated"],
      [k \in {"LC", "Not evaluated"} |->
          IF k = "LC" THEN "Least concern" ELSE "Not evaluated"] }

ChartModes == {"division", "origin", "endemism", "sass", "default"}

\* the SiteVisit table
SiteVisit == {1, 2, 3}

\* the EcologicalCondition table (category "A" and "B")
EcologicalCondition ==
    << [category |-> <<65>>, colour |-> "#0f0"],
       [category |-> <<66>>, colour |-> "#00f"] >>

\* the SiteVisitTaxon table with the ecological condition of its site
\* visit; 0 is NULL
SiteVisitTaxon ==
    { [id |-> 1, site_visit |-> 1, ecological_condition |-> 2],
      [id |-> 2, site_visit |-> 1, ecological_condition |-> 2],
      [id |-> 3, site_visit |-> 2, ecological_condition |-> 1],
      [id |-> 4, site_visit |-> 3, ecological_condition |-> 0] }

\* users: username and whether last_login is NULL
Users ==
    { [id |-> 1, username |-> <<97, 98>>, last_login_null |-> FALSE],
      [id |-> 2, username |-> <<71, 66, 73, 70, 97>>, last_login_null |-> FALSE],
      [id |-> 3, username |-> <<98>>, last_login_null |-> TRUE] }

\* the Survey table: owner of every survey
Survey == { [id |-> 1, owner |-> 1], [id |-> 2, owner |-> 2] }

\* the DownloadRequest table
DownloadRequest == {1, 2, 3}

RecordRows(visits) ==
    [module_group : GroupIds, taxonomy : RecordTaxa, visit : visits]

RECURSIVE BagsOfSize(_, _)
BagsOfSize(rows, n) ==
    IF n = 0 THEN {EmptyBag}
    ELSE {b (+) SetToBag({r}) : b \in BagsOfSize(rows, n - 1), r \in rows}

BagsUpTo(rows, n) == UNION {BagsOfSize(rows, k) : k \in 0..n}

(***************************************************************************)
(* Queries shared by the views                                             *)
(***************************************************************************)
\* rest_framework Response(data, status=...)
Response(data, status) == [status |-> status, data |-> data]

\* an exception that leaves the view: Django answers 500
ServerError(exception) == [status |-> 500, data |-> [exception |-> exception]]

\* request.GET.get(key, default) where the default is used
HasParam(GET, key) == key \in DOMAIN GET

\* TaxonGroup.objects.get(id=...) raises DoesNotExist
DoesNotExist(taxon_group_id) == taxon_group_id \notin DOMAIN taxon_groups

\* BiologicalCollectionRecord.objects.filter(module_group=taxon_group)
collections(taxon_group) ==
    LET rows == {r \in DOMAIN records : r.module_group = taxon_group.id}
    IN  [r \in rows |-> records[r]]

\* collections.count()
CountRows(coll) == BagCardinality(coll)

\* collections.values_list('taxonomy', flat=True).distinct()
unique_taxonomy_ids(coll) == {r.taxonomy : r \in DOMAIN coll}

\* Taxonomy.objects.filter(id__in=unique_taxonomy_ids), rows in id order
taxonomies(ids) == SelectSeq(Taxonomy, LAMBDA t : t.id \in ids)

\* Taxonomy.parent_by_rank(rank): the nearest node of that rank on the
\* ancestry of the taxon, the taxon included; 0 when there is none
RECURSIVE parent_by_rank(_, _)
parent_by_rank(taxonomy, rank) ==
    IF taxonomy.rank = rank THEN taxonomy.id
    ELSE IF taxonomy.parent = 0 THEN 0
    ELSE parent_by_rank(Taxonomy[taxonomy.parent], rank)

SpeciesRanks == {"SPECIES", "SUBSPECIES"}

(***************************************************************************)
(* TaxonGroupOrdersAPIView                                                 *)
(***************************************************************************)
\* the body of the loop over taxonomies, lines 235-245
OrdersEntry(taxonomy) ==
    LET order_taxonomy == parent_by_rank(taxonomy, "ORDER")
    IN  [id |-> IF order_taxonomy # 0 THEN order_taxonomy ELSE 0,
         name |-> taxonomy.order_name,
         scientific_name |->
            IF order_taxonomy # 0 THEN Taxonomy[order_taxonomy].scientific_name
            ELSE taxonomy.order_name]

\* variant of OrdersMatch that compares without lower()
OrdersMatch_case_sensitive(taxonomy, search) ==
    /\ Len(taxonomy.order_name) > 0
    /\ Contains(taxonomy.order_name, search)

\* if order_name: if search.lower() in order_name.lower():
OrdersMatch(taxonomy, search) ==
    /\ Len(taxonomy.order_name) > 0
    /\ Contains(Lower(taxonomy.order_name), Lower(search))

RECURSIVE OrdersLoop(_, _, _)
OrdersLoop(txs, search, orders_data) ==
    IF Len(txs) = 0 THEN orders_data
    ELSE OrdersLoop(Tail(txs), search,
            IF OrdersMatch(Head(txs), search)
            THEN DictSet(orders_data, OrdersEntry(Head(txs)))
            ELSE orders_data)

\* orders_list after the sort of line 249
orders_list(taxon_group, search) ==
    SortByName(OrdersLoop(
        taxonomies(unique_taxonomy_ids(collections(taxon_group))),
        search, <<>>))

\* variant of PageStart that takes page for a 0-based index
PageStart_zero_based(page, page_size) == page * page_size

\* start = (page - 1) * page_size, lines 253, 311 and 366
PageStart(page, page_size) == (page - 1) * page_size

\* the slice and the Response of lines 251-266 (shared shape of the three
\* listing views)
Paginated(taxon_group, total, page, page_size, end, data) ==
    Response([taxon_group_id |-> taxon_group.id,
              taxon_group_name |-> taxon_group.name,
              data |-> data,
              total |-> total,
              page |-> page,
              page_size |-> page_size,
              has_next |-> (end < total),
              has_previous |-> (page > 1)], 200)

\* the query parameters after lines 222-224
PageOf(GET) == IF HasParam(GET, "page") THEN IntOf(GET["page"]) ELSE 1
PageSizeOf(GET) ==
    IF HasParam(GET, "page_size") THEN IntOf(GET["page_size"]) ELSE 50
SearchOf(GET) == IF HasParam(GET, "search") THEN GET["search"] ELSE <<>>

\* int(request.GET.get(...)) raises ValueError on line 222 or 223
ParamsRaise(GET) ==
    \/ HasParam(GET, "page") /\ IntRaises(GET["page"])
    \/ HasParam(GET, "page_size") /\ IntRaises(GET["page_size"])

\* variant of OrdersView that reads the query parameters before it looks
\* the group up
OrdersView_parse_first(taxon_group_id, GET) ==
    IF ParamsRaise(GET) THEN ServerError("ValueError")
    ELSE IF DoesNotExist(taxon_group_id)
    THEN Response([error |-> "Taxon group not found"], 404)
    ELSE LET taxon_group == taxon_groups[taxon_group_id]
             page == PageOf(GET)
             page_size == PageSizeOf(GET)
             lst == orders_list(taxon_group, SearchOf(GET))
             start == PageStart(page, page_size)
             end == start + page_size
         IN  Paginated(taxon_group, Len(lst), page, page_size, end,
                       PySlice(lst, start, end))

OrdersView(taxon_group_id, GET) ==
    IF DoesNotExist(taxon_group_id)
    THEN Response([error |-> "Taxon group not found"], 404)
    ELSE IF ParamsRaise(GET) THEN ServerError("ValueError")
    ELSE LET taxon_group == taxon_groups[taxon_group_id]
             page == PageOf(GET)
             page_size == PageSizeOf(GET)
             lst == orders_list(taxon_group, SearchOf(GET))
             start == PageStart(page, page_size)
             end == start + page_size
         IN  Paginated(taxon_group, Len(lst), page, page_size, end,
                       PySlice(lst, start, end))

(***************************************************************************)
(* TaxonGroupFamiliesAPIView                                               *)
(***************************************************************************)
FamiliesEntry(taxonomy) ==
    LET family_taxonomy == parent_by_rank(taxonomy, "FAMILY")
    IN  [id |-> IF family_taxonomy # 0 THEN family_taxonomy ELSE 0,
         name |-> taxonomy.family_name,
         scientific_name |->
            IF family_taxonomy # 0
            THEN Taxonomy[family_taxonomy].scientific_name
            ELSE taxonomy.family_name,
         order_name |-> taxonomy.order_name]

FamiliesMatch(taxonomy, search) ==
    /\ Len(taxonomy.family_name) > 0
    /\ Contains(Lower(taxonomy.family_name), Lower(search))

RECURSIVE FamiliesLoop(_, _, _)
FamiliesLoop(txs, search, families_data) ==
    IF Len(txs) = 0 THEN families_data
    ELSE FamiliesLoop(Tail(txs), search,
            IF FamiliesMatch(Head(txs), search)
            THEN DictSet(families_data, FamiliesEntry(Head(txs)))
            ELSE families_data)

families_list(taxon_group, search) ==
    SortByName(FamiliesLoop(
        taxonomies(unique_taxonomy_ids(collections(taxon_group))),
        search, <<>>))

FamiliesView(taxon_group_id, GET) ==
    IF DoesNotExist(taxon_group_id)
    THEN Response([error |-> "Taxon group not found"], 404)
    ELSE IF ParamsRaise(GET) THEN ServerError("ValueError")
    ELSE LET taxon_group == taxon_groups[taxon_group_id]
             page == PageOf(GET)
             page_size == PageSizeOf(GET)
             lst == families_list(taxon_group, SearchOf(GET))
             start == PageStart(page, page_size)
             end == start + page_size
         IN  Paginated(taxon_group, Len(lst), page, page_size, end,
                       PySlice(lst, start, end))

(***************************************************************************)
(* TaxonGroupSpeciesAPIView                                                *)
(***************************************************************************)
\* Taxonomy.objects.filter(id__in=..., rank__in=[SPECIES, SUBSPECIES])
species_taxonomies(taxon_group) ==
    SelectSeq(taxonomies(unique_taxonomy_ids(collections(taxon_group))),
              LAMBDA t : t.rank \in SpeciesRanks)

\* the name models in models.Q(...) on line 358 is bound by no import of
\* the module (lines 1-15): evaluating it raises NameError
ModelsNameIsBound == FALSE

\* species_taxonomies[start:end]: a QuerySet refuses a negative bound
\* ("Negative indexing is not supported."), which leaves the view as an
\* unhandled exception
QuerySetSliceRaises(start, end) == start < 0 \/ end < 0

QuerySetSlice(qs, start, end) ==
    SubSeq(qs, start + 1, IF end > Len(qs) THEN Len(qs) ELSE end)

\* one row of species_data, lines 373-382
SpeciesEntry(taxonomy) ==
    [id |-> taxonomy.id,
     name |-> IF Len(taxonomy.canonical_name) > 0
              THEN taxonomy.canonical_name ELSE taxonomy.scientific_name,
     scientific_name |-> taxonomy.scientific_name,
     rank |-> taxonomy.rank,
     family_name |-> taxonomy.family_name,
     order_name |-> taxonomy.order_name,
     conservation_status |->
        IF taxonomy.iucn_status # None THEN taxonomy.iucn_status
        ELSE "Not evaluated",
     origin |->
        IF taxonomy.origin # "" /\ taxonomy.origin \in DOMAIN origin_category
        THEN origin_category[taxonomy.origin] ELSE "Unknown"]

\* Q(canonical_name__icontains=search) | Q(scientific_name__icontains=search)
SpeciesMatch(taxonomy, search) ==
    \/ Contains(Lower(taxonomy.canonical_name), Lower(search))
    \/ Contains(Lower(taxonomy.scientific_name), Lower(search))

SpeciesView(taxon_group_id, GET) ==
    IF DoesNotExist(taxon_group_id)
    THEN Response([error |-> "Taxon group not found"], 404)
    ELSE IF ParamsRaise(GET) THEN ServerError("ValueError")
    ELSE LET taxon_group == taxon_groups[taxon_group_id]
             page == PageOf(GET)
             page_size == PageSizeOf(GET)
             search == SearchOf(GET)
             start == PageStart(page, page_size)
             end == start + page_size
         IN  IF Len(search) > 0 /\ ~ModelsNameIsBound
             THEN ServerError("NameError")
             ELSE LET qs == IF Len(search) > 0
                            THEN SelectSeq(species_taxonomies(taxon_group),
                                     LAMBDA t : SpeciesMatch(t, search))
                            ELSE species_taxonomies(taxon_group)
                  IN  IF QuerySetSliceRaises(start, end)
                      THEN ServerError("ValueError")
                      ELSE Paginated(taxon_group, Len(qs), page, page_size, end,
                              [i \in 1..Len(QuerySetSlice(qs, start, end)) |->
                                  SpeciesEntry(QuerySetSlice(qs, start, end)[i])])

(***************************************************************************)
(* ModuleSummary                                                           *)
(***************************************************************************)
\* ids of the Taxonomy rows
TaxonomyIds == 1..Len(Taxonomy)

\* number of rows of a collection whose taxonomy is one of ids
CountTaxonomy(coll, ids) ==
    BagCardinality([r \in {x \in DOMAIN coll : x.taxonomy \in ids} |->
                        coll[r]])

\* lines 48-51: rows grouped by Division; Count() skips NULL
DivisionChart(coll) ==
    { [Division |-> d,
       count |-> IF d = None THEN 0
                 ELSE CountTaxonomy(coll, {i \in TaxonomyIds : Taxonomy[i].division = d})] :
      d \in {Taxonomy[r.taxonomy].division : r \in DOMAIN coll} }

\* lines 53-57: origin_data
origin_data(coll) ==
    [k \in {Taxonomy[r.taxonomy].origin : r \in DOMAIN coll} \ {""} |->
        CountTaxonomy(coll, {i \in TaxonomyIds : Taxonomy[i].origin = k})]

\* origin_category[key] on line 61 raises KeyError
OriginRaises(coll) ==
    \E key \in DOMAIN origin_data(coll) : key \notin DOMAIN origin_category

\* lines 58-64: updated_origin_data
OriginChart(coll) ==
    LET data == origin_data(coll)
    IN  [label \in {origin_category[key] : key \in DOMAIN data} |->
            data[CHOOSE key \in DOMAIN data : origin_category[key] = label]]

\* lines 66-71
EndemismValue(t) == IF t.endemism # None THEN t.endemism ELSE "Unknown"

EndemismChart(coll) ==
    [v \in {EndemismValue(Taxonomy[r.taxonomy]) : r \in DOMAIN coll} |->
        CountTaxonomy(coll, {i \in TaxonomyIds : EndemismValue(Taxonomy[i]) = v})]

\* lines 73-92: rows of SiteVisitTaxon with an ecological condition,
\* grouped by category, ordered by category
SassRows ==
    { [value |-> EcologicalCondition[c].category,
       count |-> Cardinality({x \in SiteVisitTaxon :
                                x.ecological_condition = c}),
       color |-> EcologicalCondition[c].colour] :
      c \in {x.ecological_condition : x \in SiteVisitTaxon} \ {0} }

RECURSIVE OrderByValue(_)
OrderByValue(rows) ==
    IF rows = {} THEN <<>>
    ELSE LET m == CHOOSE x \in rows :
                    \A y \in rows : ~StrLess(y.value, x.value)
         IN  <<m>> \o OrderByValue(rows \ {m})

\* lines 95-103: summary_temp
IUCNValue(t) == IF t.iucn_status # None THEN t.iucn_status ELSE "Not evaluated"

summary_temp(coll) ==
    LET kept == [r \in {x \in DOMAIN coll : Taxonomy[x.taxonomy].origin # ""}
                    |-> coll[r]]
    IN  [v \in {IUCNValue(Taxonomy[r.taxonomy]) : r \in DOMAIN kept} |->
            CountTaxonomy(kept, {i \in TaxonomyIds : IUCNValue(Taxonomy[i]) = v})]

\* lines 104-109: updated_summary
ConservationChart(coll) ==
    LET temp == summary_temp(coll)
        keys == {key \in DOMAIN temp : key \in DOMAIN iucn_category}
    IN  [label \in {iucn_category[key] : key \in keys} |->
            temp[CHOOSE key \in keys : iucn_category[key] = label]]

\* the chart section of lines 47-109
ChartSection(taxon_group, coll) ==
    CASE taxon_group.chart_data = "division" ->
            [division |-> DivisionChart(coll)]
      [] taxon_group.chart_data = "origin" ->
            [origin |-> OriginChart(coll)]
      [] taxon_group.chart_data = "endemism" ->
            [endemism |-> EndemismChart(coll)]
      [] taxon_group.chart_data = "sass" ->
            [ecological_data |-> OrderByValue(SassRows),
             total_sass |-> Cardinality(SiteVisit)]
      [] OTHER ->
            [k \in {"conservation-status"} |-> ConservationChart(coll)]

\* variant of order_names without the test of line 123
order_names_with_empty(txs) == {txs[i].order_name : i \in 1..Len(txs)}

\* variant of species_count that counts the rank SPECIES only
species_count_species_only(txs) ==
    Len(SelectSeq(txs, LAMBDA t : t.rank = "SPECIES"))

\* lines 118-128
order_names(txs) ==
    {txs[i].order_name : i \in {j \in 1..Len(txs) : Len(txs[j].order_name) > 0}}

family_names(txs) ==
    {txs[i].family_name : i \in {j \in 1..Len(txs) : Len(txs[j].family_name) > 0}}

species_count(txs) == Len(SelectSeq(txs, LAMBDA t : t.rank \in SpeciesRanks))

\* module_summary_data raises (the KeyError of line 61)
module_summary_raises(taxon_group) ==
    /\ taxon_group.chart_data = "origin"
    /\ OriginRaises(collections(taxon_group))

\* module_summary_data when it returns
module_summary_data(taxon_group) ==
    LET coll == collections(taxon_group)
        txs == taxonomies(unique_taxonomy_ids(coll))
    IN  ChartSection(taxon_group, coll)
        @@ [taxon_group_id |-> taxon_group.id,
            orders |-> [total |-> Cardinality(order_names(txs))],
            families |-> [total |-> Cardinality(family_names(txs))],
            species |-> [total |-> species_count(txs)],
            total |-> CountRows(coll),
            total_site |-> Cardinality({r.visit[1] : r \in DOMAIN coll}),
            total_site_visit |-> Cardinality({r.visit[2] : r \in DOMAIN coll})]
        @@ (IF taxon_group.logo # None THEN [icon |-> taxon_group.logo]
            ELSE [k \in {} |-> None])

\* TaxonGroup.objects.filter(category=SPECIES_MODULE) as a set of ids
species_modules ==
    {g \in DOMAIN taxon_groups : taxon_groups[g].category = "SPECIES_MODULE"}

\* lines 165-179: the two running sums over the species-module groups
RECURSIVE total_occurrences(_)
total_occurrences(ids) ==
    IF ids = {} THEN 0
    ELSE LET g == CHOOSE x \in ids : TRUE
         IN  CountRows(collections(taxon_groups[g]))
             + total_occurrences(ids \ {g})

RECURSIVE total_taxa(_)
total_taxa(ids) ==
    IF ids = {} THEN 0
    ELSE LET g == CHOOSE x \in ids : TRUE
         IN  Cardinality(unique_taxonomy_ids(collections(taxon_groups[g])))
             + total_taxa(ids \ {g})

\* owner__username__icontains of lines 155-157
ExcludedOwner(user) ==
    \/ Contains(Lower(user.username), <<103, 98, 105, 102>>)
    \/ Contains(Lower(user.username), <<97, 100, 109, 105, 110>>)
    \/ Contains(Lower(user.username), <<109, 97, 112, 95, 118, 109>>)

general_summary_data ==
    [total_occurrences |-> total_occurrences(species_modules),
     total_taxa |-> total_taxa(species_modules),
     total_users |-> Cardinality({u \in Users : ~u.last_login_null}),
     total_uploads |->
        Cardinality({s \in Survey :
            ~ExcludedOwner(CHOOSE u \in Users : u.id = s.owner)}),
     total_downloads |-> Cardinality(DownloadRequest)]

\* .order_by('display_order') on line 202
RECURSIVE OrderByDisplay(_)
OrderByDisplay(ids) ==
    IF ids = {} THEN <<>>
    ELSE LET m == CHOOSE x \in ids : \A y \in ids :
                    taxon_groups[x].display_order <= taxon_groups[y].display_order
         IN  <<m>> \o OrderByDisplay(ids \ {m})

\* response_data[key] = value on a dict
PutKey(d, key, value) ==
    [k \in DOMAIN d \cup {key} |-> IF k = key THEN value ELSE d[k]]

\* the loop of lines 203-207
RECURSIVE SummaryLoop(_, _)
SummaryLoop(ids, response_data) ==
    IF Len(ids) = 0 THEN response_data
    ELSE SummaryLoop(Tail(ids),
            PutKey(response_data, taxon_groups[Head(ids)].name,
                   module_summary_data(taxon_groups[Head(ids)])))

ModuleSummaryView ==
    IF \E g \in species_modules : module_summary_raises(taxon_groups[g])
    THEN ServerError("KeyError")
    ELSE Response(SummaryLoop(OrderByDisplay(species_modules),
                              [general_summary |-> general_summary_data]),
                  200)

(***************************************************************************)
(* Requests                                                                *)
(***************************************************************************)
NoParam == [k \in {} |-> <<>>]

\* texts of the page parameter: the integers 0..MaxPage and a text int()
\* rejects
PageParams ==
    {NoParam} \cup {[page |-> Str(n)] : n \in 0..MaxPage}
              \cup {[page |-> <<120>>]}

PageSizeParams ==
    {NoParam} \cup {[page_size |-> Str(n)] : n \in (0 - 1)..MaxPageSize}
              \cup {[page_size |-> <<120>>]}

\* search terms: none, "a", "B"
SearchParams == {NoParam, [search |-> <<97>>], [search |-> <<66>>]}

QueryDicts ==
    {p @@ z @@ q : p \in PageParams, z \in PageSizeParams, q \in SearchParams}

(***************************************************************************)
(* The TaxonGroup table                                                    *)
(***************************************************************************)
\* name and category of the second group
SecondGroups ==
    { <<"Algae", "SPECIES_MODULE">>, <<"Fish", "SPECIES_MODULE">>,
      <<"Algae", "SASS">> }

GroupTable(mode, second) ==
    [g \in GroupIds |->
        IF g = 1
        THEN [id |-> 1, name |-> "Fish", category |-> "SPECIES_MODULE",
              display_order |-> 2, chart_data |-> mode, logo |-> "/fish.png"]
        ELSE [id |-> 2, name |-> second[1], category |-> second[2],
              display_order |-> 1, chart_data |-> "default", logo |-> None]]

(***************************************************************************)
(* Specification of the four views over databases with one visit           *)
(***************************************************************************)
Init ==
    /\ taxon_groups = GroupTable("default", <<"Algae", "SPECIES_MODULE">>)
    /\ records \in BagsUpTo(RecordRows({<<1, 1>>}), MaxRecords)
    /\ iucn_category \in {t \in IUCNTables : "NE" \in DOMAIN t}
    /\ request = [view |-> "none"]
    /\ response = [status |-> 0]

\* The views keep no state between requests (no caching, no writes): the
\* answer to a request depends on the database and the request only, so a
\* behaviour handles one request.
Idle == request.view = "none"

TaxonGroupOrdersAPIView_get ==
    /\ Idle
    /\ \E taxon_group_id \in RequestGroupIds, GET \in QueryDicts :
        /\ request' = [view |-> "orders", taxon_group_id |-> taxon_group_id,
                       GET |-> GET]
        /\ response' = OrdersView(taxon_group_id, GET)
        /\ UNCHANGED <<taxon_groups, records, iucn_category>>

TaxonGroupFamiliesAPIView_get ==
    /\ Idle
    /\ \E taxon_group_id \in RequestGroupIds, GET \in QueryDicts :
        /\ request' = [view |-> "families", taxon_group_id |-> taxon_group_id,
                       GET |-> GET]
        /\ response' = FamiliesView(taxon_group_id, GET)
        /\ UNCHANGED <<taxon_groups, records, iucn_category>>

TaxonGroupSpeciesAPIView_get ==
    /\ Idle
    /\ \E taxon_group_id \in RequestGroupIds, GET \in QueryDicts :
        /\ request' = [view |-> "species", taxon_group_id |-> taxon_group_id,
                       GET |-> GET]
        /\ response' = SpeciesView(taxon_group_id, GET)
        /\ UNCHANGED <<taxon_groups, records, iucn_category>>

ModuleSummary_get ==
    /\ Idle
    /\ request' = [view |-> "module_summary"]
    /\ response' = ModuleSummaryView
    /\ UNCHANGED <<taxon_groups, records, iucn_category>>

Next ==
    \/ TaxonGroupOrdersAPIView_get
    \/ TaxonGroupFamiliesAPIView_get
    \/ TaxonGroupSpeciesAPIView_get
    \/ ModuleSummary_get

Spec == Init /\ [][Next]_vars

(***************************************************************************)
(* Specification of the module summary over every chart mode, group table  *)
(* and lookup table                                                        *)
(***************************************************************************)
InitSummary ==
    /\ taxon_groups \in {GroupTable(mode, second) :
                            mode \in ChartModes, second \in SecondGroups}
    /\ records \in BagsUpTo(RecordRows(Visits), MaxRecords)
    /\ iucn_category \in IUCNTables
    /\ request = [view |-> "none"]
    /\ response = [status |-> 0]

NextSummary == ModuleSummary_get

SpecSummary == InitSummary /\ [][NextSummary]_vars

(***************************************************************************)
(* Reference notions the properties are stated with                        *)
(***************************************************************************)
ListingViews == {"orders", "families", "species"}

\* a listing request for a TaxonGroup that exists
ExistingListing ==
    /\ request.view \in ListingViews
    /\ request.taxon_group_id \in DOMAIN taxon_groups

\* page and page_size, when given, are texts of integers
IntegerParams == ~ParamsRaise(request.GET)

\* the taxa referenced by the records of a group
ReferencedTaxa(gid) ==
    {Taxonomy[r.taxonomy] : r \in {x \in DOMAIN records : x.module_group = gid}}

\* the same letter up to case
SameLetter(c, d) ==
    \/ c = d
    \/ c >= 65 /\ c <= 90 /\ d = c + 32
    \/ d >= 65 /\ d <= 90 /\ c = d + 32

\* sub occurs in s, case ignored
IContains(s, sub) ==
    \E i \in 0..(Len(s) - Len(sub)) :
        \A j \in 1..Len(sub) : SameLetter(s[i + j], sub[j])

\* distinct non-empty order (family) names of a group matching a search
MatchingNames(view, gid, search) ==
    {n \in {IF view = "orders" THEN t.order_name ELSE t.family_name :
                t \in ReferencedTaxa(gid)} :
        n # <<>> /\ IContains(n, search)}

\* ids of the SPECIES/SUBSPECIES taxa of a group matching a search
MatchingSpecies(gid, search) ==
    {t.id : t \in {x \in ReferencedTaxa(gid) :
        /\ x.rank \in {"SPECIES", "SUBSPECIES"}
        /\ (IContains(x.canonical_name, search)
            \/ IContains(x.scientific_name, search))}}

\* N, the number of items of the filtered list of the request
FilteredCount ==
    IF request.view = "species"
    THEN Cardinality(MatchingSpecies(request.taxon_group_id,
                                     SearchOf(request.GET)))
    ELSE Cardinality(MatchingNames(request.view, request.taxon_group_id,
                                   SearchOf(request.GET)))

\* the names of a list of entries
NamesOf(lst) == [i \in 1..Len(lst) |-> lst[i].name]

StrictlyAscending(names) ==
    \A i \in 1..(Len(names) - 1) : StrLess(names[i], names[i + 1])

\* the request asks for the whole list: first page, default page size
Unpaginated ==
    /\ ~HasParam(request.GET, "page_size")
    /\ PageOf(request.GET) = 1

(***************************************************************************)
(* C1: for each listing endpoint, every existing TaxonGroup, every integer *)
(* page and page_size and every filtered list of N items, the response has *)
(* has_next = (page * page_size < N), has_previous = (page > 1) and        *)
(* total = N.                                                              *)
(***************************************************************************)
C1_PaginationFlags ==
    (ExistingListing /\ IntegerParams) =>
        /\ response.status = 200
        /\ response.data.has_next =
              (PageOf(request.GET) * PageSizeOf(request.GET) < FilteredCount)
        /\ response.data.has_previous = (PageOf(request.GET) > 1)
        /\ response.data.total = FilteredCount

(***************************************************************************)
(* C2: for the orders and families listings, with the group, the search    *)
(* term and a page_size P >= 1 fixed, the data of pages 1, 2, ... up to    *)
(* the first page whose has_next is false, concatenated, is the full       *)
(* sorted list of matching items, each item once and none missing.         *)
(***************************************************************************)
\* the view of the request run on the same request with another page
ViewAtPage(i) ==
    LET GET == [k \in DOMAIN request.GET \cup {"page"} |->
                   IF k = "page" THEN Str(i) ELSE request.GET[k]]
    IN  IF request.view = "orders"
        THEN OrdersView(request.taxon_group_id, GET)
        ELSE FamiliesView(request.taxon_group_id, GET)

\* pages i, i + 1, ... up to the first one without a next page; a walk
\* longer than limit pages ends with an entry no list holds
RECURSIVE PagesFrom(_, _)
PagesFrom(i, limit) ==
    IF i > limit THEN <<[name |-> <<>>]>>
    ELSE LET r == ViewAtPage(i)
         IN  IF r.data.has_next THEN r.data.data \o PagesFrom(i + 1, limit)
             ELSE r.data.data

C2_Walk ==
    /\ ExistingListing
    /\ request.view \in {"orders", "families"}
    /\ IntegerParams
    /\ PageSizeOf(request.GET) >= 1

C2_PagesConcatenate ==
    C2_Walk =>
        LET all == PagesFrom(1, FilteredCount + 1)
        IN  /\ StrictlyAscending(NamesOf(all))
            /\ {all[i].name : i \in 1..Len(all)} =
                  MatchingNames(request.view, request.taxon_group_id,
                                SearchOf(request.GET))
            /\ response = ViewAtPage(PageOf(request.GET))

\* the last page of a listing of several pages has been served
C2_Witness ==
    /\ C2_Walk
    /\ response.status = 200
    /\ response.data.page = 3
    /\ response.data.page_size = 1
    /\ Len(response.data.data) = 1
    /\ ~response.data.has_next

(***************************************************************************)
(* C3: on each listing endpoint, a taxon_group_id that resolves to no      *)
(* TaxonGroup is answered by 404 and {error: "Taxon group not found"},     *)
(* whatever page, page_size and search are (texts that are no integers     *)
(* included), and by no listing data.                                      *)
(***************************************************************************)
C3_UnknownGroup ==
    /\ request.view \in ListingViews
    /\ request.taxon_group_id \notin DOMAIN taxon_groups

C3_NotFound ==
    C3_UnknownGroup =>
        /\ response.status = 404
        /\ response.data = [error |-> "Taxon group not found"]

\* an unknown group asked with a page that is no integer
C3_Witness ==
    /\ C3_UnknownGroup
    /\ HasParam(request.GET, "page")
    /\ IntRaises(request.GET["page"])
    /\ HasParam(request.GET, "search")
    /\ response.status = 404

(***************************************************************************)
(* C4: the full unpaginated orders (families) listing of an existing       *)
(* group is the set of distinct non-empty order (family) names of the taxa *)
(* referenced by the group's records that contain the search term, case    *)
(* ignored, each name once, ascending by name; an empty search term keeps  *)
(* every distinct non-empty name.                                          *)
(***************************************************************************)
C4_FullListing ==
    /\ ExistingListing
    /\ request.view \in {"orders", "families"}
    /\ IntegerParams
    /\ Unpaginated

C4_ListingContents ==
    C4_FullListing =>
        LET names == NamesOf(response.data.data)
        IN  /\ response.status = 200
            /\ StrictlyAscending(names)
            /\ {names[i] : i \in 1..Len(names)} =
                  MatchingNames(request.view, request.taxon_group_id,
                                SearchOf(request.GET))
            /\ (SearchOf(request.GET) = <<>> =>
                  {names[i] : i \in 1..Len(names)} =
                     {IF request.view = "orders" THEN t.order_name
                      ELSE t.family_name :
                        t \in ReferencedTaxa(request.taxon_group_id)} \ {<<>>})

\* the search "a" kept "Ab" and "aB" and left "b" out
C4_Witness ==
    /\ C4_FullListing
    /\ request.view = "orders"
    /\ SearchOf(request.GET) = <<97>>
    /\ Len(response.data.data) = 2
    /\ \E t \in ReferencedTaxa(request.taxon_group_id) : t.order_name = <<98>>

(***************************************************************************)
(* C5: the species listing of an existing group with a non-empty search    *)
(* term succeeds and returns the SPECIES/SUBSPECIES taxa referenced by the *)
(* group's records whose canonical or scientific name contains the term,   *)
(* case ignored; with an empty term it returns all of them.                *)
(***************************************************************************)
C5_SpeciesSearch ==
    (/\ ExistingListing
     /\ request.view = "species"
     /\ IntegerParams
     /\ Unpaginated) =>
        /\ response.status = 200
        /\ {response.data.data[i].id : i \in 1..Len(response.data.data)} =
              MatchingSpecies(request.taxon_group_id, SearchOf(request.GET))

(***************************************************************************)
(* C6: for any TaxonGroup, in every chart mode and for any stored record   *)
(* data, module_summary_data returns a summary with the keys               *)
(* taxon_group_id, total, total_site, total_site_visit, orders.total,      *)
(* families.total and species.total.                                       *)
(***************************************************************************)
SummaryServed == request.view = "module_summary"

RequiredKeys == {"taxon_group_id", "total", "total_site", "total_site_visit",
                 "orders", "families", "species"}

HasRequiredKeys(summary) ==
    /\ RequiredKeys \subseteq DOMAIN summary
    /\ "total" \in DOMAIN summary["orders"]
    /\ "total" \in DOMAIN summary["families"]
    /\ "total" \in DOMAIN summary["species"]

C6_SummaryKeys ==
    SummaryServed =>
        /\ response.status = 200
        /\ \A g \in species_modules :
              /\ taxon_groups[g].name \in DOMAIN response.data
              /\ HasRequiredKeys(response.data[taxon_groups[g].name])

(***************************************************************************)
(* C7: the module summary response holds general_summary and, for every    *)
(* species-module TaxonGroup, one entry keyed by the group's name with     *)
(* that group's own module_summary_data: K groups give K + 1 entries, and  *)
(* general_summary holds the general summary metrics.                      *)
(***************************************************************************)
C7_SummaryEntries ==
    SummaryServed =>
        /\ response.status = 200
        /\ Cardinality(DOMAIN response.data) = Cardinality(species_modules) + 1
        /\ response.data["general_summary"] = general_summary_data
        /\ \A g \in species_modules :
              response.data[taxon_groups[g].name] =
                 module_summary_data(taxon_groups[g])

(***************************************************************************)
(* C8: species.total of module_summary_data is the number of occurrence    *)
(* records of the group whose taxon has rank SPECIES or SUBSPECIES, a      *)
(* taxon referenced by several records counting once per record.           *)
(***************************************************************************)
\* the groups whose summary module_summary_data returns
SummarisedGroups ==
    {g \in species_modules : ~module_summary_raises(taxon_groups[g])}

SpeciesRecords(g) ==
    BagCardinality([r \in {x \in DOMAIN records :
                            /\ x.module_group = g
                            /\ Taxonomy[x.taxonomy].rank
                                  \in {"SPECIES", "SUBSPECIES"}}
                       |-> records[r]])

C8_SpeciesTotalPerRecord ==
    SummaryServed =>
        \A g \in SummarisedGroups :
            module_summary_data(taxon_groups[g]).species.total =
                SpeciesRecords(g)

\* C8 as amended: species.total is the number of distinct taxa of rank
\* SPECIES or SUBSPECIES referenced by the records of the group, a taxon
\* referenced by several records counting once.
C8_SpeciesTotalPerTaxon ==
    SummaryServed =>
        \A g \in SummarisedGroups :
            module_summary_data(taxon_groups[g]).species.total =
                Cardinality(MatchingSpecies(g, <<>>))

\* a served summary of a group with two records of one species
C8_Witness ==
    /\ SummaryServed
    /\ response.status = 200
    /\ \E g \in SummarisedGroups :
          /\ SpeciesRecords(g) = 2
          /\ response.data[taxon_groups[g].name].species.total = 1

(***************************************************************************)
(* C9: in the default chart mode, the records of the group with non-empty  *)
(* origin and a null IUCN status are counted under "Not evaluated"         *)
(* whatever the lookup table holds; records with a status whose code is in *)
(* the table are counted under the translated name, and codes absent from  *)
(* the table are dropped without an error.                                 *)
(***************************************************************************)
\* the label the claim gives a taxon; "" when the record is dropped
ClaimedLabel(t) ==
    IF t.iucn_status = None THEN "Not evaluated"
    ELSE IF t.iucn_status \in DOMAIN iucn_category
         THEN iucn_category[t.iucn_status] ELSE ""

ClaimedChart(g) ==
    LET kept == {r \in DOMAIN records :
                    /\ r.module_group = g
                    /\ Taxonomy[r.taxonomy].origin # ""
                    /\ ClaimedLabel(Taxonomy[r.taxonomy]) # ""}
    IN  [label \in {ClaimedLabel(Taxonomy[r.taxonomy]) : r \in kept} |->
            BagCardinality([r \in {x \in kept :
                    ClaimedLabel(Taxonomy[x.taxonomy]) = label}
                        |-> records[r]])]

C9_NotEvaluatedCounted ==
    SummaryServed =>
        \A g \in SummarisedGroups :
            taxon_groups[g].chart_data = "default" =>
                module_summary_data(taxon_groups[g])["conservation-status"] =
                    ClaimedChart(g)

(***************************************************************************)
(* C10: for an existing TaxonGroup over unchanged data, orders.total,      *)
(* families.total and species.total of module_summary_data equal the total *)
(* of the orders, families and species listing called with an empty search *)
(* term.                                                                   *)
(***************************************************************************)
\* a listing without search term was served for a group
C10_ListingServed ==
    /\ ExistingListing
    /\ IntegerParams
    /\ SearchOf(request.GET) = <<>>
    /\ response.status = 200
    /\ ~module_summary_raises(taxon_groups[request.taxon_group_id])

C10_TotalsAgree ==
    /\ C10_ListingServed =>
          response.data.total =
             module_summary_data(taxon_groups[request.taxon_group_id])
                [request.view].total
    /\ (SummaryServed /\ response.status = 200) =>
          \A g \in species_modules :
              LET summary == response.data[taxon_groups[g].name]
              IN  /\ summary.orders.total = OrdersView(g, NoParam).data.total
                  /\ summary.families.total =
                        FamiliesView(g, NoParam).data.total
                  /\ summary.species.total = SpeciesView(g, NoParam).data.total

\* a species listing of two taxa was served for a group of three records
C10_Witness ==
    /\ C10_ListingServed
    /\ request.view = "species"
    /\ response.data.total = 2
    /\ module_summary_data(taxon_groups[request.taxon_group_id]).total = 3

====
